---------------------------- MODULE Spec2Model ----------------------------
(***************************************************************************)
(* hpx::this_thread::experimental::sync_wait                               *)
(* (libs/core/execution/include/hpx/execution/algorithms/sync_wait.hpp).   *)
(*                                                                         *)
(* Every sync_wait invocation is a "call" c.  A call has a calling thread  *)
(* (program counter pc[c]) and, once the operation state is started, a     *)
(* producer (program counter ppc[c]) that runs the receiver's completion   *)
(* callback, either inline inside start() on the calling thread or on      *)
(* another thread.  The fields of sync_wait_receiver::shared_state are the *)
(* variables cond_var, mtx, set_called and value; alive[c] tells whether   *)
(* the stack object `state` of the call is inside its scope.               *)
(*                                                                         *)
(* The properties of the sender are inputs: the scheduler it exposes and   *)
(* the number of value signatures it declares are drawn when the sender is *)
(* handed to sync_wait, whether it completes inside start() is drawn when  *)
(* start() is entered, and the channel and payload it completes with are   *)
(* drawn when the callback is invoked.  The deduction of error_type and    *)
(* the construction of the error variant are pure functions of the         *)
(* sender's declared error types and of the error sent; SpecDeduction      *)
(* applies them to every such input, in the variable `deduced`.            *)
(***************************************************************************)
EXTENDS Naturals, Sequences, FiniteSets, TLC

\* The sync_wait invocations in flight.
Calls == {1, 2}

\* Cap of the counter of failed spinlock acquisitions of a calling thread.
MaxSpins == 2

VARIABLES
    pc,          \* calling thread: position in sync_wait
    ppc,         \* producer: position in the completion callback
    mode,        \* "direct": sync_wait(sender); "deferred": sync_wait() | sender
    sched,       \* what the sender's completion scheduler offers
    sync,        \* TRUE: the sender completes inside start()
    completion,  \* the completion signal the sender sent
    alive,       \* shared_state object is inside its scope
    cond_var,    \* shared_state::cond_var: the threads queued on it
    mtx,         \* shared_state::mtx: its owner
    set_called,  \* shared_state::set_called
    value,       \* shared_state::value
    results,     \* what the call handed to its caller (returned or raised)
    steps,       \* the steps of the call, in order
    cellLog,     \* the accesses to shared_state::value, in order
    spins,       \* failed acquisitions of mtx by the calling thread
    uaf,         \* the producer touched the shared state after its scope ended
    value_types, \* the number of value signatures the sender declares
    deduced      \* an instantiation of the error-type deduction and its use

vars == <<pc, ppc, mode, sched, sync, completion, alive, cond_var, mtx,
          set_called, value, results, steps, cellLog, spins, uaf,
          value_types, deduced>>

-----------------------------------------------------------------------------
(* Values, errors and the sender's completion signals.                     *)

\* A value passed to set_value: its value category / cv-qualification as
\* deduced for Us&&, and its content.
Arg(q, v) == [q |-> q, v |-> v]

\* The argument packs the senders of the model complete with.
ValuePacks ==
    { <<Arg("rref", "42")>>,
      <<Arg("lref", "1"), Arg("cref", "a")>> }

\* The errors the senders of the model complete with: an opaque captured
\* exception (std::exception_ptr to exception "boom") and a typed error.
Errors ==
    { [type |-> "exception_ptr", v |-> "boom"],
      [type |-> "int", v |-> "7"] }

NoError == [type |-> "none", v |-> ""]

NoCompletion == [ch |-> "none", vals |-> <<>>, err |-> NoError]
ValueCompletion(us) == [ch |-> "value", vals |-> us, err |-> NoError]
ErrorCompletion(e) == [ch |-> "error", vals |-> <<>>, err |-> e]
StoppedCompletion == [ch |-> "stopped", vals |-> <<>>, err |-> NoError]

Completions ==
    { ValueCompletion(us) : us \in ValuePacks }
        \cup { ErrorCompletion(e) : e \in Errors }
        \cup { StoppedCompletion }

\* What the sender's completion scheduler offers: no completion scheduler for
\* set_value, a scheduler without its own sync_wait, a scheduler with one.
Schedulers == {"none", "plain", "custom"}

-----------------------------------------------------------------------------
(* Result/error type deduction and the value cell.                         *)

\* A tuple member that is not decayed: it keeps the reference / qualifier of
\* the argument (single_result_type without make_decayed_pack).
decay_omitted(a) == a

\* std::decay_t of one tuple member: the reference and the cv-qualifier are
\* stripped, the member is an owned object.
decay(a) == Arg("value", a.v)

\* make_decayed_pack<Pack<Ts...>>: Pack<std::decay_t<Ts>...>.
make_decayed_pack(pack) == [i \in DOMAIN pack |-> decay(pack[i])]

\* hpx::forward_as_tuple(HPX_FORWARD(Us, us)...): a tuple of references to
\* the arguments.
forward_as_tuple(us) == us

\* hpx::variant<hpx::monostate, error_type, result_type> value.
\* "indeterminate" is the cell while an emplace replaces its alternative.
Cell(alt, tuple, err, moved) ==
    [alt |-> alt, tuple |-> tuple, err |-> err, moved |-> moved]

monostate == Cell("monostate", <<>>, NoError, FALSE)
indeterminate == Cell("indeterminate", <<>>, NoError, FALSE)

\* value.emplace<result_type>(forward_as_tuple(us...)): result_type is
\* hpx::variant<single_result_type>, whose tuple members are decayed.
emplace_result(us) ==
    Cell("result", make_decayed_pack(forward_as_tuple(us)), NoError, FALSE)

\* value.emplace<error_type>(HPX_FORWARD(Error, error)): the alternative of
\* the error variant that has the error's type holds the error.
emplace_error(e) == Cell("error", <<>>, e, FALSE)

\* What a call hands to its caller.
Outcome(kind, tuple, exc) == [kind |-> kind, tuple |-> tuple, exc |-> exc]
Present(t) == Outcome("present", t, NoError)
Absent == Outcome("absent", <<>>, NoError)
Raised(x) == Outcome("raised", <<>>, x)
Garbage == Outcome("garbage", <<>>, NoError)

\* The visitor without its std::exception_ptr overload: `throw error` raises
\* the exception_ptr itself, not the exception it refers to.
sync_wait_error_visitor_throws_ptr(e) == [type |-> e.type, v |-> e.v]

\* sync_wait_error_visitor: std::rethrow_exception(ep) raises the exception
\* object the exception_ptr refers to; `throw error` raises a copy of the
\* stored typed error.
sync_wait_error_visitor(e) ==
    IF e.type = "exception_ptr"
    THEN [type |-> "exception", v |-> e.v]
    ELSE [type |-> e.type, v |-> e.v]

\* get_value() that treats a cell left at hpx::monostate as a failure and
\* raises instead of returning an empty optional.
get_value_outcome_unset_raises(cell) ==
    IF cell.alt = "result" THEN Present(cell.tuple)
    ELSE IF cell.alt = "error" THEN Raised(sync_wait_error_visitor(cell.err))
    ELSE IF cell.alt = "monostate"
         THEN Raised([type |-> "exception", v |-> "unset"])
    ELSE Garbage

\* shared_state::get_value(): the outcome for the cell's alternative.
get_value_outcome(cell) ==
    IF cell.alt = "result" THEN Present(cell.tuple)
    ELSE IF cell.alt = "error" THEN Raised(sync_wait_error_visitor(cell.err))
    ELSE IF cell.alt = "monostate" THEN Absent
    ELSE Garbage

\* shared_state::get_value(): the cell it leaves behind; the tuple of a
\* result is moved out (HPX_MOVE(value)).
get_value_cell(cell) ==
    IF cell.alt = "result" THEN Cell("result", cell.tuple, NoError, TRUE)
    ELSE cell

\* The error types a sender can declare or send.
ErrorTypeNames == {"exception_ptr", "int", "error_code"}

\* The longest list of declared error types of a sender of the model.
MaxDeclared == 2

\* predecessor_error_types<hpx::variant>: the sender's declared error types,
\* in the order of declaration; a type may be declared more than once.
DeclaredErrorTypes ==
    UNION { [1..n -> ErrorTypeNames] : n \in 0..MaxDeclared }

\* The errors a sender passes to set_error, one of each type.
SentErrors ==
    { [type |-> "exception_ptr", v |-> "boom"],
      [type |-> "int", v |-> "7"],
      [type |-> "error_code", v |-> "5"] }

\* The most value signatures a sender of the model declares.
MaxValueTypes == 2

\* The number of value signatures of a sender of the model.
ValueTypeCounts == 1..MaxValueTypes

\* single_variant_t<...>: "forcing static_assert ensuring variant has
\* exactly one tuple"; n is the number of tuples of the variant.
single_variant(n) == IF n = 1 THEN "tuple" ELSE "static_assert"

\* prepend_t<Pack<Ts...>, T>: Pack<T, Ts...>.
prepend(pack, T) == <<T>> \o pack

\* The position of the first member of pack that equals T, 0 if none does.
RECURSIVE first_index(_, _, _)
first_index(pack, T, i) ==
    IF i > Len(pack) THEN 0
    ELSE IF pack[i] = T THEN i
    ELSE first_index(pack, T, i + 1)

\* unique_t<Pack<Ts...>>: every type once, at its first position.
RECURSIVE unique(_)
unique(pack) ==
    IF pack = <<>> THEN <<>>
    ELSE LET front == unique(SubSeq(pack, 1, Len(pack) - 1))
             last == pack[Len(pack)]
         IN  IF first_index(front, last, 1) = 0 THEN Append(front, last)
             ELSE front

\* error_type without unique_t: the declared list with std::exception_ptr in
\* front, duplicates kept.
error_type_not_unique(declared) == prepend(declared, "exception_ptr")

\* error_type: hpx::util::detail::unique_t<hpx::util::detail::prepend_t<
\* predecessor_error_types<hpx::variant>, std::exception_ptr>>, as the list
\* of the variant's alternatives.
error_type(declared) == unique(prepend(declared, "exception_ptr"))

\* An ill-formed construction: no object exists.
ill_formed == [index |-> 0, type |-> "ill-formed", err |-> NoError]

\* An error variant constructed from whatever is sent: an error of a type
\* without an alternative is captured in the std::exception_ptr alternative.
construct_error_type_capturing(alts, e) ==
    IF first_index(alts, e.type, 1) # 0
    THEN [index |-> first_index(alts, e.type, 1), type |-> e.type, err |-> e]
    ELSE [index |-> first_index(alts, "exception_ptr", 1),
          type |-> "exception_ptr",
          err |-> [type |-> "exception_ptr", v |-> e.v]]

\* error_type(HPX_FORWARD(Error, error)), the object that
\* value.emplace<error_type>(...) constructs in the cell: the variant whose
\* alternatives are alts is constructed from e; the alternative of e's own
\* type is selected, and without exactly one such alternative the
\* construction is ill-formed.
construct_error_type(alts, e) ==
    LET matching == {i \in DOMAIN alts : alts[i] = e.type}
    IN  IF Cardinality(matching) = 1
        THEN [index |-> first_index(alts, e.type, 1), type |-> e.type,
              err |-> e]
        ELSE ill_formed

\* No instantiation is looked at.
NoDeduction ==
    [stage |-> "none", declared |-> <<>>, error |-> NoError,
     error_type |-> <<>>, stored |-> ill_formed]

-----------------------------------------------------------------------------
(* Initial state: the program is about to make the calls in `made`; a     *)
(* call the program never makes stays "unused".                            *)

InitCalls(made) ==
    /\ pc = [c \in Calls |-> IF c \in made THEN "idle" ELSE "unused"]
    /\ ppc = [c \in Calls |-> "none"]
    /\ mode = [c \in Calls |-> "none"]
    /\ sched = [c \in Calls |-> "none"]
    /\ sync = [c \in Calls |-> FALSE]
    /\ completion = [c \in Calls |-> NoCompletion]
    /\ alive = [c \in Calls |-> FALSE]
    /\ cond_var = [c \in Calls |-> {}]
    /\ mtx = [c \in Calls |-> "free"]
    /\ set_called = [c \in Calls |-> FALSE]
    /\ value = [c \in Calls |-> monostate]
    /\ results = [c \in Calls |-> <<>>]
    /\ steps = [c \in Calls |-> <<>>]
    /\ cellLog = [c \in Calls |-> <<>>]
    /\ spins = [c \in Calls |-> 0]
    /\ uaf = [c \in Calls |-> FALSE]
    /\ value_types = [c \in Calls |-> 0]

\* The calls of `made`, and no instantiation looked at on its own.
InitWith(made) == InitCalls(made) /\ deduced = NoDeduction

\* One sync_wait call.
Init == InitWith({1})

\* Every call of Calls is made; the calls run concurrently.
InitConcurrent == InitWith(Calls)

-----------------------------------------------------------------------------
(* Dispatch customization.                                                 *)

\* sync_wait(sender): the sender is handed to sync_wait_t directly.
sync_wait_direct(c, s, n) ==
    /\ pc[c] = "idle"
    /\ pc' = [pc EXCEPT ![c] = "dispatch"]
    /\ mode' = [mode EXCEPT ![c] = "direct"]
    /\ sched' = [sched EXCEPT ![c] = s]
    /\ value_types' = [value_types EXCEPT ![c] = n]
    /\ UNCHANGED <<ppc, sync, completion, alive, cond_var, mtx, set_called,
                   value, results, steps, cellLog, spins, uaf, deduced>>

\* A zero-argument form that already constructs the shared state of the
\* generic sequence when the partial algorithm is made.
sync_wait_partial_eager(c) ==
    /\ pc[c] = "idle"
    /\ pc' = [pc EXCEPT ![c] = "partial"]
    /\ mode' = [mode EXCEPT ![c] = "deferred"]
    /\ alive' = [alive EXCEPT ![c] = TRUE]
    /\ steps' = [steps EXCEPT ![c] = Append(@, "state")]
    /\ UNCHANGED <<ppc, sched, sync, completion, cond_var, mtx, set_called,
                   value, results, cellLog, spins, uaf,
                   value_types, deduced>>

\* tag_fallback_invoke(sync_wait_t): sync_wait() returns
\* partial_algorithm<sync_wait_t>{} and does nothing else.
sync_wait_partial(c) ==
    /\ pc[c] = "idle"
    /\ pc' = [pc EXCEPT ![c] = "partial"]
    /\ mode' = [mode EXCEPT ![c] = "deferred"]
    /\ UNCHANGED <<ppc, sched, sync, completion, alive, cond_var, mtx,
                   set_called, value, results, steps, cellLog, spins, uaf,
                   value_types, deduced>>

\* sender | sync_wait(): the partial algorithm invokes sync_wait_t on the
\* sender it is combined with.
partial_algorithm_pipe(c, s, n) ==
    /\ pc[c] = "partial"
    /\ pc' = [pc EXCEPT ![c] = "dispatch"]
    /\ sched' = [sched EXCEPT ![c] = s]
    /\ value_types' = [value_types EXCEPT ![c] = n]
    /\ UNCHANGED <<ppc, mode, sync, completion, alive, cond_var, mtx,
                   set_called, value, results, steps, cellLog, spins, uaf,
                   deduced>>

\* The override's constraint reduced to "the sender has a completion
\* scheduler", without asking whether the scheduler customizes sync_wait.
is_completion_scheduler_only(s) == s # "none"

\* is_completion_scheduler_tag_invocable_v<set_value_t, Sender, sync_wait_t>:
\* the sender has a completion scheduler for set_value and
\* tag_invoke(sync_wait_t, scheduler, sender) is well-formed.
is_completion_scheduler_tag_invocable(s) == s = "custom"

\* tag_priority: tag_override_invoke is preferred when it is viable,
\* tag_fallback_invoke is used otherwise.
dispatch_override(s) == is_completion_scheduler_tag_invocable(s)

\* tag_override_invoke(sync_wait_t, sender): get_completion_scheduler, then
\* tag_invoke(sync_wait_t{}, scheduler, sender).
tag_override_invoke(c) ==
    /\ pc[c] = "dispatch"
    /\ dispatch_override(sched[c])
    /\ pc' = [pc EXCEPT ![c] = "scheduler"]
    /\ steps' = [steps EXCEPT ![c] = Append(@, "tag_invoke(scheduler,sender)")]
    /\ UNCHANGED <<ppc, mode, sched, sync, completion, alive, cond_var, mtx,
                   set_called, value, results, cellLog, spins, uaf,
                   value_types, deduced>>

\* The scheduler's own sync_wait: it blocks by its own means and hands the
\* sender's completion to the caller.
scheduler_sync_wait(c, k) ==
    /\ pc[c] = "scheduler"
    /\ completion' = [completion EXCEPT ![c] = k]
    /\ results' = [results EXCEPT ![c] =
           Append(@, IF k.ch = "value" THEN Present(make_decayed_pack(k.vals))
                     ELSE IF k.ch = "error"
                          THEN Raised(sync_wait_error_visitor(k.err))
                     ELSE Absent)]
    /\ pc' = [pc EXCEPT ![c] = "returned"]
    /\ UNCHANGED <<ppc, mode, sched, sync, alive, cond_var, mtx, set_called,
                   value, steps, cellLog, spins, uaf,
                   value_types, deduced>>

-----------------------------------------------------------------------------
(* Blocking wait engine: tag_fallback_invoke(sync_wait_t, sender).         *)

\* tag_fallback_invoke that constructs the shared state whatever the number
\* of value signatures is, taking the first one as the result type.
tag_fallback_invoke_first_signature(c) ==
    /\ pc[c] = "dispatch"
    /\ ~dispatch_override(sched[c])
    /\ pc' = [pc EXCEPT ![c] = "connect"]
    /\ alive' = [alive EXCEPT ![c] = TRUE]
    /\ cond_var' = [cond_var EXCEPT ![c] = {}]
    /\ mtx' = [mtx EXCEPT ![c] = "free"]
    /\ set_called' = [set_called EXCEPT ![c] = FALSE]
    /\ value' = [value EXCEPT ![c] = monostate]
    /\ steps' = [steps EXCEPT ![c] = Append(@, "state")]
    /\ UNCHANGED <<ppc, mode, sched, sync, completion, results, cellLog,
                   spins, uaf, value_types, deduced>>

\* tag_fallback_invoke(sync_wait_t, sender) for a sender whose
\* single_result_type does not exist: the static_assert of single_variant_t
\* rejects the instantiation of sync_wait_receiver<Sender>, so the program
\* is not built and none of the function's statements runs.
single_result_type_rejected(c) ==
    /\ pc[c] = "dispatch"
    /\ ~dispatch_override(sched[c])
    /\ single_variant(value_types[c]) = "static_assert"
    /\ pc' = [pc EXCEPT ![c] = "ill_formed"]
    /\ UNCHANGED <<ppc, mode, sched, sync, completion, alive, cond_var, mtx,
                   set_called, value, results, steps, cellLog, spins, uaf,
                   value_types, deduced>>

\* state_type state{}: the shared state of the call is constructed; its
\* type names single_result_type, which exists for one value signature.
tag_fallback_invoke(c) ==
    /\ pc[c] = "dispatch"
    /\ ~dispatch_override(sched[c])
    /\ single_variant(value_types[c]) = "tuple"
    /\ pc' = [pc EXCEPT ![c] = "connect"]
    /\ alive' = [alive EXCEPT ![c] = TRUE]
    /\ cond_var' = [cond_var EXCEPT ![c] = {}]
    /\ mtx' = [mtx EXCEPT ![c] = "free"]
    /\ set_called' = [set_called EXCEPT ![c] = FALSE]
    /\ value' = [value EXCEPT ![c] = monostate]
    /\ steps' = [steps EXCEPT ![c] = Append(@, "state")]
    /\ UNCHANGED <<ppc, mode, sched, sync, completion, results, cellLog,
                   spins, uaf,
                   value_types, deduced>>

\* auto op_state = connect(sender, receiver_type{state}).
connect(c) ==
    /\ pc[c] = "connect"
    /\ pc' = [pc EXCEPT ![c] = "start"]
    /\ steps' = [steps EXCEPT ![c] = Append(@, "connect")]
    /\ UNCHANGED <<ppc, mode, sched, sync, completion, alive, cond_var, mtx,
                   set_called, value, results, cellLog, spins, uaf,
                   value_types, deduced>>

\* A calling thread that takes state.mtx before start(op_state) and keeps it
\* while the operation is started.
start_holding_lock(c, inl) ==
    /\ pc[c] = "start"
    /\ pc' = [pc EXCEPT ![c] = "in_start"]
    /\ ppc' = [ppc EXCEPT ![c] = "ready"]
    /\ sync' = [sync EXCEPT ![c] = inl]
    /\ mtx' = [mtx EXCEPT ![c] = "caller"]
    /\ steps' = [steps EXCEPT ![c] = Append(@, "start")]
    /\ UNCHANGED <<mode, sched, completion, alive, cond_var, set_called,
                   value, results, cellLog, spins, uaf, value_types, deduced>>

\* start(op_state) is entered: from here on the sender may complete, inside
\* start (inl) or on another thread.
start(c, inl) ==
    /\ pc[c] = "start"
    /\ pc' = [pc EXCEPT ![c] = "in_start"]
    /\ ppc' = [ppc EXCEPT ![c] = "ready"]
    /\ sync' = [sync EXCEPT ![c] = inl]
    /\ steps' = [steps EXCEPT ![c] = Append(@, "start")]
    /\ UNCHANGED <<mode, sched, completion, alive, cond_var, mtx, set_called,
                   value, results, cellLog, spins, uaf,
                   value_types, deduced>>

\* tag_fallback_invoke without state.wait(): get_value() follows the return
\* of start(op_state) directly.
start_return_skips_wait(c) ==
    /\ pc[c] = "in_start"
    /\ sync[c] => ppc[c] = "done"
    /\ pc' = [pc EXCEPT ![c] = "get_value"]
    /\ UNCHANGED <<ppc, mode, sched, sync, completion, alive, cond_var, mtx,
                   set_called, value, results, steps, cellLog, spins, uaf,
                   value_types, deduced>>

\* start(op_state) returns; a sender that completes inside start has run its
\* completion callback to its end by then.
start_return(c) ==
    /\ pc[c] = "in_start"
    /\ sync[c] => ppc[c] = "done"
    /\ pc' = [pc EXCEPT ![c] = "wait"]
    /\ UNCHANGED <<ppc, mode, sched, sync, completion, alive, cond_var, mtx,
                   set_called, value, results, steps, cellLog, spins, uaf,
                   value_types, deduced>>

\* wait() with the fast-path test inverted: it returns at once when the flag
\* is not set.
wait_fast_inverted(c) ==
    /\ pc[c] = "wait"
    /\ pc' = [pc EXCEPT ![c] = IF ~set_called[c] THEN "get_value" ELSE "lock"]
    /\ steps' = [steps EXCEPT ![c] = Append(@, "wait")]
    /\ UNCHANGED <<ppc, mode, sched, sync, completion, alive, cond_var, mtx,
                   set_called, value, results, cellLog, spins, uaf,
                   value_types, deduced>>

\* shared_state::wait(): if (!set_called), read without the lock.
wait_fast(c) ==
    /\ pc[c] = "wait"
    /\ pc' = [pc EXCEPT ![c] = IF set_called[c] THEN "get_value" ELSE "lock"]
    /\ steps' = [steps EXCEPT ![c] = Append(@, "wait")]
    /\ UNCHANGED <<ppc, mode, sched, sync, completion, alive, cond_var, mtx,
                   set_called, value, results, cellLog, spins, uaf,
                   value_types, deduced>>

\* shared_state::wait(): std::unique_lock<mutex_type> l(mtx) acquires the
\* spinlock.
wait_lock(c) ==
    /\ pc[c] = "lock"
    /\ mtx[c] = "free"
    /\ mtx' = [mtx EXCEPT ![c] = "caller"]
    /\ pc' = [pc EXCEPT ![c] = "recheck"]
    /\ UNCHANGED <<ppc, mode, sched, sync, completion, alive, cond_var,
                   set_called, value, results, steps, cellLog, spins, uaf,
                   value_types, deduced>>

\* hpx::spinlock::lock() on a held spinlock: the acquisition fails and is
\* tried again (mutex_type = hpx::spinlock).
spinlock_retry(c) ==
    /\ pc[c] \in {"lock", "woken"}
    /\ mtx[c] # "free"
    /\ spins[c] < MaxSpins
    /\ spins' = [spins EXCEPT ![c] = @ + 1]
    /\ UNCHANGED <<pc, ppc, mode, sched, sync, completion, alive, cond_var,
                   mtx, set_called, value, results, steps, cellLog, uaf,
                   value_types, deduced>>

\* hpx::condition_variable::wait(l): the thread is queued on the condition
\* variable and the lock is released, in one step; the thread blocks until
\* a notification resumes it.
condition_variable_wait(c) ==
    /\ pc' = [pc EXCEPT ![c] = "parked"]
    /\ cond_var' = [cond_var EXCEPT ![c] = @ \cup {"caller"}]
    /\ mtx' = [mtx EXCEPT ![c] = "free"]

\* hpx::condition_variable::notify_one(): one queued thread is taken off the
\* condition variable and resumed; nothing happens when none is queued.
condition_variable_notify_one(c) ==
    IF "caller" \in cond_var[c]
    THEN /\ cond_var' = [cond_var EXCEPT ![c] = @ \ {"caller"}]
         /\ pc' = [pc EXCEPT ![c] = "woken"]
    ELSE UNCHANGED <<cond_var, pc>>

\* wait() that polls: when the locked re-check finds the flag unset it
\* releases the lock and tries again instead of blocking.
wait_recheck_polling(c) ==
    /\ pc[c] = "recheck"
    /\ IF set_called[c]
       THEN /\ pc' = [pc EXCEPT ![c] = "unlock"]
            /\ UNCHANGED <<mtx, spins>>
       ELSE /\ pc' = [pc EXCEPT ![c] = "lock"]
            /\ mtx' = [mtx EXCEPT ![c] = "free"]
            /\ spins' = [spins EXCEPT ![c] =
                   IF @ < MaxSpins THEN @ + 1 ELSE @]
    /\ UNCHANGED <<ppc, mode, sched, sync, completion, alive, cond_var,
                   set_called, value, results, steps, cellLog, uaf,
                   value_types, deduced>>

\* wait() without the re-check under the lock: it always blocks on the
\* condition variable once it holds the lock.
wait_recheck_omitted(c) ==
    /\ pc[c] = "recheck"
    /\ condition_variable_wait(c)
    /\ UNCHANGED <<ppc, mode, sched, sync, completion, alive, set_called,
                   value, results, steps, cellLog, spins, uaf,
                   value_types, deduced>>

\* shared_state::wait(): if (!set_called) cond_var.wait(l), under the lock.
wait_recheck(c) ==
    /\ pc[c] = "recheck"
    /\ IF set_called[c]
       THEN /\ pc' = [pc EXCEPT ![c] = "unlock"]
            /\ UNCHANGED <<cond_var, mtx>>
       ELSE condition_variable_wait(c)
    /\ UNCHANGED <<ppc, mode, sched, sync, completion, alive, set_called,
                   value, results, steps, cellLog, spins, uaf,
                   value_types, deduced>>

\* hpx::condition_variable::wait(l) after the notification: the lock is
\* taken again before wait returns.
condition_variable_relock(c) ==
    /\ pc[c] = "woken"
    /\ mtx[c] = "free"
    /\ mtx' = [mtx EXCEPT ![c] = "caller"]
    /\ pc' = [pc EXCEPT ![c] = "unlock"]
    /\ UNCHANGED <<ppc, mode, sched, sync, completion, alive, cond_var,
                   set_called, value, results, steps, cellLog, spins, uaf,
                   value_types, deduced>>

\* shared_state::wait(): the unique_lock goes out of scope and wait returns.
wait_unlock(c) ==
    /\ pc[c] = "unlock"
    /\ mtx' = [mtx EXCEPT ![c] = "free"]
    /\ pc' = [pc EXCEPT ![c] = "get_value"]
    /\ UNCHANGED <<ppc, mode, sched, sync, completion, alive, cond_var,
                   set_called, value, results, steps, cellLog, spins, uaf,
                   value_types, deduced>>

\* get_value() that takes state.mtx before it reads the cell: the calling
\* thread blocks there while the producer is still inside
\* signal_set_called.
get_value_locking(c) ==
    /\ pc[c] = "get_value"
    /\ mtx[c] = "free"
    /\ results' = [results EXCEPT ![c] = Append(@, get_value_outcome(value[c]))]
    /\ value' = [value EXCEPT ![c] = get_value_cell(@)]
    /\ cellLog' = [cellLog EXCEPT ![c] = Append(@, "read")]
    /\ steps' = [steps EXCEPT ![c] = Append(@, "get_value")]
    /\ pc' = [pc EXCEPT ![c] = "leave"]
    /\ UNCHANGED <<ppc, mode, sched, sync, completion, alive, cond_var, mtx,
                   set_called, spins, uaf, value_types, deduced>>

\* return state.get_value(): the value cell is read and the outcome is
\* returned or raised.
get_value(c) ==
    /\ pc[c] = "get_value"
    /\ results' = [results EXCEPT ![c] = Append(@, get_value_outcome(value[c]))]
    /\ value' = [value EXCEPT ![c] = get_value_cell(@)]
    /\ cellLog' = [cellLog EXCEPT ![c] = Append(@, "read")]
    /\ steps' = [steps EXCEPT ![c] = Append(@, "get_value")]
    /\ pc' = [pc EXCEPT ![c] = "leave"]
    /\ UNCHANGED <<ppc, mode, sched, sync, completion, alive, cond_var, mtx,
                   set_called, spins, uaf,
                   value_types, deduced>>

\* The closing brace of tag_fallback_invoke (or the unwinding of a raised
\* error): op_state and state are destroyed.
scope_exit(c) ==
    /\ pc[c] = "leave"
    /\ alive' = [alive EXCEPT ![c] = FALSE]
    /\ pc' = [pc EXCEPT ![c] = "returned"]
    /\ UNCHANGED <<ppc, mode, sched, sync, completion, cond_var, mtx,
                   set_called, value, results, steps, cellLog, spins, uaf,
                   value_types, deduced>>

-----------------------------------------------------------------------------
(* Receiver adapter: the completion callbacks, run by the producer.        *)

\* set_value that publishes the flag before the emplace has finished.
set_value_flag_first(c, us) ==
    /\ ppc[c] = "ready"
    /\ alive[c]
    /\ completion' = [completion EXCEPT ![c] = ValueCompletion(us)]
    /\ value' = [value EXCEPT ![c] = indeterminate]
    /\ set_called' = [set_called EXCEPT ![c] = TRUE]
    /\ cellLog' = [cellLog EXCEPT ![c] = Append(@, "write_begin")]
    /\ ppc' = [ppc EXCEPT ![c] = "emplace"]
    /\ UNCHANGED <<pc, mode, sched, sync, alive, cond_var, mtx, results,
                   steps, spins, uaf,
                   value_types, deduced>>

\* tag_invoke(set_value_t, r, us...): r.state.value.emplace<result_type>
\* begins.
set_value(c, us) ==
    /\ ppc[c] = "ready"
    /\ alive[c]
    /\ completion' = [completion EXCEPT ![c] = ValueCompletion(us)]
    /\ value' = [value EXCEPT ![c] = indeterminate]
    /\ cellLog' = [cellLog EXCEPT ![c] = Append(@, "write_begin")]
    /\ ppc' = [ppc EXCEPT ![c] = "emplace"]
    /\ UNCHANGED <<pc, mode, sched, sync, alive, cond_var, mtx, set_called,
                   results, steps, spins, uaf,
                   value_types, deduced>>

\* set_error that publishes the flag before the emplace has finished.
set_error_flag_first(c, e) ==
    /\ ppc[c] = "ready"
    /\ alive[c]
    /\ completion' = [completion EXCEPT ![c] = ErrorCompletion(e)]
    /\ value' = [value EXCEPT ![c] = indeterminate]
    /\ set_called' = [set_called EXCEPT ![c] = TRUE]
    /\ cellLog' = [cellLog EXCEPT ![c] = Append(@, "write_begin")]
    /\ ppc' = [ppc EXCEPT ![c] = "emplace"]
    /\ UNCHANGED <<pc, mode, sched, sync, alive, cond_var, mtx, results,
                   steps, spins, uaf, value_types, deduced>>

\* tag_invoke(set_error_t, r, error): r.state.value.emplace<error_type>
\* begins.
set_error(c, e) ==
    /\ ppc[c] = "ready"
    /\ alive[c]
    /\ completion' = [completion EXCEPT ![c] = ErrorCompletion(e)]
    /\ value' = [value EXCEPT ![c] = indeterminate]
    /\ cellLog' = [cellLog EXCEPT ![c] = Append(@, "write_begin")]
    /\ ppc' = [ppc EXCEPT ![c] = "emplace"]
    /\ UNCHANGED <<pc, mode, sched, sync, alive, cond_var, mtx, set_called,
                   results, steps, spins, uaf,
                   value_types, deduced>>

\* The emplace of set_value / set_error ends: the cell holds the new
\* alternative; r.signal_set_called() is next.
emplace_end(c) ==
    /\ ppc[c] = "emplace"
    /\ alive[c]
    /\ value' = [value EXCEPT ![c] =
           IF completion[c].ch = "value"
           THEN emplace_result(completion[c].vals)
           ELSE emplace_error(completion[c].err)]
    /\ cellLog' = [cellLog EXCEPT ![c] = Append(@, "write_end")]
    /\ ppc' = [ppc EXCEPT ![c] = "sig_lock"]
    /\ UNCHANGED <<pc, mode, sched, sync, completion, alive, cond_var, mtx,
                   set_called, results, steps, spins, uaf,
                   value_types, deduced>>

\* tag_invoke(set_stopped_t, r): only r.signal_set_called().
set_stopped(c) ==
    /\ ppc[c] = "ready"
    /\ alive[c]
    /\ completion' = [completion EXCEPT ![c] = StoppedCompletion]
    /\ ppc' = [ppc EXCEPT ![c] = "sig_lock"]
    /\ UNCHANGED <<pc, mode, sched, sync, alive, cond_var, mtx, set_called,
                   value, results, steps, cellLog, spins, uaf,
                   value_types, deduced>>

\* signal_set_called() without the unique_lock: the flag is set and the
\* notification is issued without holding state.mtx.
signal_lock_omitted(c) ==
    /\ ppc[c] = "sig_lock"
    /\ alive[c]
    /\ ppc' = [ppc EXCEPT ![c] = "sig_set"]
    /\ UNCHANGED <<pc, mode, sched, sync, completion, alive, cond_var, mtx,
                   set_called, value, results, steps, cellLog, spins, uaf,
                   value_types, deduced>>

\* signal_set_called(): std::unique_lock<mutex_type> l(state.mtx).
signal_lock(c) ==
    /\ ppc[c] = "sig_lock"
    /\ alive[c]
    /\ mtx[c] = "free"
    /\ mtx' = [mtx EXCEPT ![c] = "producer"]
    /\ ppc' = [ppc EXCEPT ![c] = "sig_set"]
    /\ UNCHANGED <<pc, mode, sched, sync, completion, alive, cond_var,
                   set_called, value, results, steps, cellLog, spins, uaf,
                   value_types, deduced>>

\* signal_set_called(): state.set_called = true.
signal_set(c) ==
    /\ ppc[c] = "sig_set"
    /\ alive[c]
    /\ set_called' = [set_called EXCEPT ![c] = TRUE]
    /\ ppc' = [ppc EXCEPT ![c] = "sig_notify"]
    /\ UNCHANGED <<pc, mode, sched, sync, completion, alive, cond_var, mtx,
                   value, results, steps, cellLog, spins, uaf,
                   value_types, deduced>>

\* signal_set_called(): state.cond_var.notify_one().
signal_notify(c) ==
    /\ ppc[c] = "sig_notify"
    /\ alive[c]
    /\ condition_variable_notify_one(c)
    /\ ppc' = [ppc EXCEPT ![c] = "sig_unlock"]
    /\ UNCHANGED <<mode, sched, sync, completion, alive, mtx, set_called,
                   value, results, steps, cellLog, spins, uaf,
                   value_types, deduced>>

\* signal_set_called(): the unique_lock goes out of scope.
signal_unlock(c) ==
    /\ ppc[c] = "sig_unlock"
    /\ alive[c]
    /\ mtx' = [mtx EXCEPT ![c] = "free"]
    /\ ppc' = [ppc EXCEPT ![c] = "done"]
    /\ UNCHANGED <<pc, mode, sched, sync, completion, alive, cond_var,
                   set_called, value, results, steps, cellLog, spins, uaf,
                   value_types, deduced>>

\* The producer's next position inside a callback.
after(p) ==
    CASE p = "ready" -> "sig_lock"
      [] p = "emplace" -> "sig_lock"
      [] p = "sig_lock" -> "sig_set"
      [] p = "sig_set" -> "sig_notify"
      [] p = "sig_notify" -> "sig_unlock"
      [] p = "sig_unlock" -> "done"

\* A step of the callback through the receiver's reference `state` after
\* the calling thread has left tag_fallback_invoke: the access is to a
\* destroyed object; the producer goes on or the program stops there.
dangling_access(c, q) ==
    /\ ppc[c] \in {"ready", "emplace", "sig_lock", "sig_set", "sig_notify",
                   "sig_unlock"}
    /\ pc[c] = "returned"
    /\ ~alive[c]
    /\ q \in {after(ppc[c]), "crashed"}
    /\ uaf' = [uaf EXCEPT ![c] = TRUE]
    /\ ppc' = [ppc EXCEPT ![c] = q]
    /\ UNCHANGED <<pc, mode, sched, sync, completion, alive, cond_var, mtx,
                   set_called, value, results, steps, cellLog, spins,
                   value_types, deduced>>

\* The last two statements of signal_set_called, run through the receiver's
\* reference after the state of call c was destroyed, when the state of a
\* later call d lies in the storage the state of c had (the same stack slot
\* of tag_fallback_invoke on the same calling thread):
\* state.cond_var.notify_one() resumes the thread queued on the condition
\* variable of d, and the unique_lock's destructor releases the mutex
\* of d, whoever holds it.
dangling_access_reused(c, d) ==
    /\ c # d
    /\ ppc[c] \in {"sig_notify", "sig_unlock"}
    /\ pc[c] = "returned"
    /\ ~alive[c]
    /\ alive[d]
    /\ uaf' = [uaf EXCEPT ![c] = TRUE]
    /\ ppc' = [ppc EXCEPT ![c] = after(ppc[c])]
    /\ IF ppc[c] = "sig_notify"
       THEN condition_variable_notify_one(d) /\ UNCHANGED mtx
       ELSE mtx' = [mtx EXCEPT ![d] = "free"] /\ UNCHANGED <<pc, cond_var>>
    /\ UNCHANGED <<mode, sched, sync, completion, alive, set_called, value,
                   results, steps, cellLog, spins, value_types, deduced>>

-----------------------------------------------------------------------------
(* The specification.                                                      *)

CallerStep(c) ==
    \/ \E s \in Schedulers, n \in ValueTypeCounts : sync_wait_direct(c, s, n)
    \/ sync_wait_partial(c)
    \/ \E s \in Schedulers, n \in ValueTypeCounts :
           partial_algorithm_pipe(c, s, n)
    \/ tag_override_invoke(c)
    \/ \E k \in Completions : scheduler_sync_wait(c, k)
    \/ single_result_type_rejected(c)
    \/ tag_fallback_invoke(c)
    \/ connect(c)
    \/ \E inl \in BOOLEAN : start(c, inl)
    \/ start_return(c)
    \/ wait_fast(c)
    \/ wait_lock(c)
    \/ spinlock_retry(c)
    \/ wait_recheck(c)
    \/ condition_variable_relock(c)
    \/ wait_unlock(c)
    \/ get_value(c)
    \/ scope_exit(c)

ProducerStep(c) ==
    \/ \E us \in ValuePacks : set_value(c, us)
    \/ \E e \in Errors : set_error(c, e)
    \/ emplace_end(c)
    \/ set_stopped(c)
    \/ signal_lock(c)
    \/ signal_set(c)
    \/ signal_notify(c)
    \/ signal_unlock(c)
    \/ \E q \in {"sig_lock", "sig_set", "sig_notify", "sig_unlock", "done",
                 "crashed"} : dangling_access(c, q)

Next == \E c \in Calls : CallerStep(c) \/ ProducerStep(c)

Spec == Init /\ [][Next]_vars

\* Several calls in flight at once.
SpecConcurrent == InitConcurrent /\ [][Next]_vars

\* The calls are made one after the other: a call begins when the earlier
\* ones have returned and their producers have come to rest.
Finished(c) == pc[c] = "returned" /\ ppc[c] \in {"none", "done", "crashed"}

NextSequential ==
    \E c \in Calls :
        /\ \A d \in Calls : d < c => Finished(d)
        /\ CallerStep(c) \/ ProducerStep(c)

SpecSequential == InitConcurrent /\ [][NextSequential]_vars

\* The calls are made one after the other by one thread: a call begins when
\* the calling thread has returned from the earlier ones, whose producers
\* may still be inside their callbacks; the state of a call is constructed
\* where the state of the call before it was.
NextReuse ==
    \E c \in Calls :
        \/ /\ \A d \in Calls : d < c => pc[d] = "returned"
           /\ CallerStep(c)
        \/ ProducerStep(c)
        \/ \E d \in Calls : dangling_access_reused(c, d)

SpecReuse == InitConcurrent /\ [][NextReuse]_vars

\* Fair scheduling: a thread that can take a step eventually takes one, and
\* a started sender eventually completes.
Fairness ==
    \A c \in Calls : WF_vars(CallerStep(c)) /\ WF_vars(ProducerStep(c))

FairSpec == Spec /\ Fairness

-----------------------------------------------------------------------------
(* The error-type deduction and the construction of the error variant, for *)
(* one instantiation of sync_wait_receiver<Sender> looked at on its own:   *)
(* the sender's declared error types and the error it passes to set_error  *)
(* are the inputs.                                                         *)

callVars == <<pc, ppc, mode, sched, sync, completion, alive, cond_var, mtx,
              set_called, value, results, steps, cellLog, spins, uaf,
              value_types>>

\* An instantiation for every list of declared error types and every error
\* sent; no call is made.
InitDeduction ==
    /\ InitCalls({})
    /\ deduced \in
           { [stage |-> "sender", declared |-> d, error |-> e,
              error_type |-> <<>>, stored |-> ill_formed] :
                 d \in DeclaredErrorTypes, e \in SentErrors }

\* using error_type = unique_t<prepend_t<predecessor_error_types<variant>,
\* std::exception_ptr>>.
deduce_error_type ==
    /\ deduced.stage = "sender"
    /\ deduced' = [deduced EXCEPT !.stage = "deduced",
                                  !.error_type = error_type(deduced.declared)]
    /\ UNCHANGED callVars

\* tag_invoke(set_error_t, r, error):
\* r.state.value.emplace<error_type>(HPX_FORWARD(Error, error)).
set_error_emplace ==
    /\ deduced.stage = "deduced"
    /\ deduced' = [deduced EXCEPT !.stage = "emplaced",
                                  !.stored = construct_error_type(
                                                 deduced.error_type,
                                                 deduced.error)]
    /\ UNCHANGED callVars

NextDeduction == deduce_error_type \/ set_error_emplace

SpecDeduction == InitDeduction /\ [][NextDeduction]_vars

-----------------------------------------------------------------------------
(* Properties.                                                             *)

\* The call took the generic path: tag_fallback_invoke constructed its state.
Generic(c) == Len(steps[c]) > 0 /\ steps[c][1] = "state"

\* The calling thread is inside shared_state::wait().
InWait(c) == pc[c] \in {"wait", "lock", "recheck", "parked", "woken", "unlock"}

\* The calling thread has returned from shared_state::wait().
PastWait(c) == Generic(c) /\ pc[c] \in {"get_value", "leave", "returned"}

\* C1: in the generic path wait() never returns before a completion callback
\* has fired on the call's shared state: once the calling thread is past
\* wait(), the sender has sent a completion signal and the flag is set.
C1_WaitNotBeforeCompletion ==
    \A c \in Calls :
        PastWait(c) => completion[c].ch # "none" /\ set_called[c]

\* C1 witness: wait() has returned while the producer is still inside
\* signal_set_called, right after it set the flag.
C1_Witness ==
    \E c \in Calls :
        pc[c] = "get_value" /\ ppc[c] \in {"sig_notify", "sig_unlock"}

\* C2: no lost wakeup: under fair scheduling a calling thread that is inside
\* wait() eventually returns from it, wherever the producer's completion
\* falls relative to the fast-path check, the lock acquisition, the locked
\* re-check and the parking.
C2_NoLostWakeup ==
    \A c \in Calls : InWait(c) ~> PastWait(c)

\* C2 witness: the calling thread was parked on the condition variable and
\* the producer's notify_one has resumed it after setting the flag.
C2_Witness ==
    \E c \in Calls : pc[c] = "woken" /\ set_called[c] /\ ~sync[c]

\* C3: the producer never accesses the shared state after the call that
\* owns it has ended the state's scope.
C3_NoAccessAfterScope ==
    \A c \in Calls : ~uaf[c]

\* The tuple of owned, unqualified values with the contents of the pack V.
Owned(V) == [i \in DOMAIN V |-> [q |-> "value", v |-> V[i].v]]

\* The calling thread has the outcome of get_value() in hand.
Resolved(c) == Generic(c) /\ pc[c] \in {"leave", "returned"}

\* C4: in the generic path a sender that completes with set_value(V) makes
\* sync_wait return a present optional with the tuple of the decayed values
\* V, once: nothing is handed to the caller before get_value(), and exactly
\* that one result after it, for a completion inside start() or on another
\* thread.
C4_ValueReturnedOnce ==
    \A c \in Calls :
        (Generic(c) /\ completion[c].ch = "value") =>
            IF Resolved(c)
            THEN results[c] = <<Present(Owned(completion[c].vals))>>
            ELSE results[c] = <<>>

\* C4 witness: an asynchronous sender has completed with (1, "a"), passed as
\* an lvalue and a const reference, and the call has returned.
C4_Witness ==
    \E c \in Calls :
        /\ pc[c] = "returned" /\ Generic(c) /\ ~sync[c]
        /\ completion[c].ch = "value" /\ Len(completion[c].vals) = 2
        /\ Len(results[c]) = 1 /\ results[c][1].kind = "present"

\* C5: in the generic path a sender that completes with set_stopped leaves
\* the value cell at hpx::monostate and unwritten, and sync_wait returns an
\* empty optional; nothing is raised.
C5_StoppedAbsent ==
    \A c \in Calls :
        (Generic(c) /\ completion[c].ch = "stopped") =>
            /\ value[c] = monostate
            /\ \A i \in DOMAIN cellLog[c] : cellLog[c][i] = "read"
            /\ IF Resolved(c) THEN results[c] = <<Absent>>
                              ELSE results[c] = <<>>

\* C5 witness: a stopped sender's call has returned after the flag was set.
C5_Witness ==
    \E c \in Calls :
        /\ pc[c] = "returned" /\ Generic(c) /\ set_called[c]
        /\ completion[c].ch = "stopped" /\ Len(results[c]) = 1

\* The exception that reaches the caller for the error E of set_error: the
\* exception an exception_ptr refers to, or the typed error itself.
RaisedFor(E) ==
    IF E.type = "exception_ptr" THEN [type |-> "exception", v |-> E.v] ELSE E

\* C6: in the generic path a sender that completes with set_error(E) has E
\* stored in the error alternative by the producer, nothing is raised before
\* the calling thread runs get_value(), and get_value() raises exactly E:
\* the exception an exception_ptr refers to, a typed error as stored; no
\* value is returned.
C6_ErrorRaisedAtCaller ==
    \A c \in Calls :
        (Generic(c) /\ completion[c].ch = "error") =>
            /\ ppc[c] \notin {"ready", "emplace"} =>
                   value[c].alt = "error" /\ value[c].err = completion[c].err
            /\ IF Resolved(c)
               THEN results[c] = <<Raised(RaisedFor(completion[c].err))>>
               ELSE results[c] = <<>>

\* C6 witness: an exception_ptr sent on another thread has been rethrown
\* at the call site.
C6_Witness ==
    \E c \in Calls :
        /\ pc[c] = "leave" /\ Generic(c) /\ ~sync[c]
        /\ completion[c].err.type = "exception_ptr"
        /\ Len(results[c]) = 1 /\ results[c][1].kind = "raised"

\* C7: the value cell is handed from one writer to one reader: its accesses
\* are at most one write (begin, end) by the callback followed by at most
\* one read by get_value(), the read never falls before or inside the write,
\* and only a stopped sender's cell is read unwritten.
C7_WriteThenRead ==
    \A c \in Calls :
        /\ cellLog[c] \in { <<>>, <<"write_begin">>,
                            <<"write_begin", "write_end">>,
                            <<"write_begin", "write_end", "read">>,
                            <<"read">> }
        /\ cellLog[c] = <<"read">> => completion[c].ch = "stopped"
        /\ (Generic(c) /\ pc[c] = "get_value") =>
               ppc[c] \notin {"none", "ready", "emplace"}

\* C7 witness: the calling thread left wait() on the lock-free fast path,
\* while the producer was still inside signal_set_called, and has read the
\* cell the callback wrote.
C7_Witness ==
    \E c \in Calls :
        /\ pc[c] = "leave" /\ ppc[c] \in {"sig_notify", "sig_unlock"}
        /\ cellLog[c] = <<"write_begin", "write_end", "read">>

\* C8 as stated: the calling thread never retries an acquisition while it
\* waits for completion.
C8_NeverRetries ==
    \A c \in Calls : spins[c] = 0

\* C8 amended: inside wait() the calling thread never goes back to poll the
\* flag again (after the locked re-check it blocks or leaves), and the only
\* thing it retries is the acquisition of the shared state's spinlock, only
\* while the producer holds it inside signal_set_called.
C8_RetriesOnlyHeldSpinlock ==
    [][\A c \in Calls :
          /\ spins[c]' # spins[c] =>
                 /\ pc[c] \in {"lock", "woken"} /\ pc[c]' = pc[c]
                 /\ mtx[c] = "producer"
                 /\ ppc[c] \in {"sig_set", "sig_notify", "sig_unlock"}
          /\ pc[c] \in {"recheck", "parked", "woken", "unlock"} =>
                 pc[c]' \notin {"wait", "lock"}]_vars

\* C8 witness: the calling thread has retried the acquisition of the
\* spinlock that the producer holds.
C8_Witness ==
    \E c \in Calls :
        spins[c] > 0 /\ pc[c] = "lock" /\ mtx[c] = "producer"

\* The steps of the generic sequence.
GenericSteps == <<"state", "connect", "start", "wait", "get_value">>

\* s is a prefix of t.
IsPrefix(s, t) == Len(s) <= Len(t) /\ \A i \in DOMAIN s : s[i] = t[i]

\* C9: a call whose sender has a completion scheduler with its own sync_wait
\* delegates to it and runs no step of the generic sequence; every other
\* call that is built (its sender is not rejected for its value signatures)
\* runs the generic sequence and never delegates.
C9_TwoTierDispatch ==
    \A c \in Calls :
        pc[c] \notin {"unused", "idle", "partial", "dispatch", "ill_formed"} =>
            IF sched[c] = "custom"
            THEN /\ steps[c] = <<"tag_invoke(scheduler,sender)">>
                 /\ ~alive[c] /\ ppc[c] = "none" /\ cellLog[c] = <<>>
            ELSE /\ Generic(c) /\ IsPrefix(steps[c], GenericSteps)
                 /\ pc[c] = "returned" => steps[c] = GenericSteps

\* C9 witness: a call was delegated to the scheduler's sync_wait and has
\* returned.
C9_Witness ==
    \E c \in Calls :
        /\ pc[c] = "returned" /\ sched[c] = "custom"
        /\ steps[c] = <<"tag_invoke(scheduler,sender)">>

NothingRun(c) ==
    /\ ~alive[c] /\ ppc[c] = "none" /\ cellLog[c] = <<>>
    /\ \A i \in DOMAIN steps[c] :
           steps[c][i] \notin {"state", "connect", "start", "wait", "get_value"}

\* C11 as stated: a sender that declares more than one value signature is
\* rejected by sync_wait before anything is done with it: no shared state,
\* no connect, no start, and the sender is handed to nobody for execution.
C11_MultiShapeNeverHandedOn ==
    \A c \in Calls :
        value_types[c] > 1 =>
            NothingRun(c) /\ steps[c] = <<>> /\ results[c] = <<>>

\* C11 amended: a sender that declares more than one value signature and
\* takes the generic path is rejected at the instantiation of
\* tag_fallback_invoke, before any shared state exists and before connect or
\* start; a sender whose completion scheduler customizes sync_wait is handed
\* to the scheduler's sync_wait whatever its value signatures are, and the
\* generic sequence does not run for it either.
C11_MultiShapeRejectedOnGenericPath ==
    \A c \in Calls :
        value_types[c] > 1 =>
            /\ NothingRun(c)
            /\ IF dispatch_override(sched[c])
               THEN /\ pc[c] \in {"dispatch", "scheduler", "returned"}
                    /\ IsPrefix(steps[c], <<"tag_invoke(scheduler,sender)">>)
               ELSE /\ pc[c] \in {"dispatch", "ill_formed"}
                    /\ steps[c] = <<>> /\ results[c] = <<>>

\* C11 witness: a sender with two value signatures on the generic path has
\* been rejected.
C11_Witness ==
    \E c \in Calls :
        /\ pc[c] = "ill_formed" /\ value_types[c] = 2
        /\ ~dispatch_override(sched[c]) /\ ~alive[c] /\ steps[c] = <<>>

\* C12: signal_set_called runs after the callback's write to the value cell
\* and does, in this order and holding state.mtx throughout: acquire the
\* mutex, set the flag, notify one waiter, release the mutex.  The flag
\* changes and a waiter is resumed only inside that critical section.
C12_SignalUnderMutex ==
    /\ [](\A c \in Calls :
            ppc[c] \in {"sig_set", "sig_notify", "sig_unlock"} =>
                /\ mtx[c] = "producer"
                /\ value[c].alt # "indeterminate"
                /\ set_called[c] <=> ppc[c] # "sig_set")
    /\ [][\A c \in Calls :
            /\ ppc[c] = "sig_lock" /\ ppc'[c] # "sig_lock" =>
                   /\ ppc'[c] = "sig_set"
                   /\ mtx[c] = "free" /\ mtx'[c] = "producer"
            /\ set_called'[c] # set_called[c] =>
                   /\ set_called'[c]
                   /\ ppc[c] = "sig_set" /\ ppc'[c] = "sig_notify"
                   /\ mtx[c] = "producer" /\ mtx'[c] = "producer"
            /\ cond_var'[c] # cond_var[c] /\ pc'[c] = "woken" =>
                   /\ Cardinality(cond_var[c] \ cond_var'[c]) = 1
                   /\ ppc[c] = "sig_notify" /\ ppc'[c] = "sig_unlock"
                   /\ set_called[c]
                   /\ mtx[c] = "producer" /\ mtx'[c] = "producer"
            /\ ppc[c] = "sig_notify" /\ ppc'[c] # "sig_notify" /\ alive[c] =>
                   ppc'[c] = "sig_unlock"
            /\ mtx[c] = "producer" /\ mtx'[c] # "producer" =>
                   /\ ppc[c] = "sig_unlock" /\ ppc'[c] = "done"
                   /\ mtx'[c] = "free" /\ set_called[c]
      ]_vars

\* C12 witness: the producer has resumed the parked calling thread and still
\* holds the mutex.
C12_Witness ==
    \E c \in Calls :
        /\ ppc[c] = "sig_unlock" /\ mtx[c] = "producer"
        /\ pc[c] = "woken" /\ cond_var[c] = {} /\ set_called[c]

\* C13: wait() is double-checked.  The unlocked read returns at once,
\* without touching the mutex, when the flag is set; otherwise the mutex is
\* acquired and the flag is read again under it, and the calling thread
\* parks on the condition variable only from that locked re-read, only when
\* it found the flag unset, releasing the mutex as it parks.  When wait()
\* has returned the calling thread holds no lock.
C13_DoubleCheckedWait ==
    /\ [](\A c \in Calls :
            /\ pc[c] \in {"recheck", "unlock"} <=> mtx[c] = "caller"
            /\ pc[c] = "parked" => alive[c] /\ "caller" \in cond_var[c])
    /\ [][\A c \in Calls :
            /\ pc[c] = "wait" /\ pc'[c] # "wait" =>
                   /\ pc'[c] = (IF set_called[c] THEN "get_value" ELSE "lock")
                   /\ mtx'[c] = mtx[c]
            /\ pc[c] = "lock" /\ pc'[c] # "lock" =>
                   /\ pc'[c] = "recheck"
                   /\ mtx[c] = "free" /\ mtx'[c] = "caller"
            /\ pc[c] = "recheck" /\ pc'[c] # "recheck" =>
                   IF set_called[c]
                   THEN pc'[c] = "unlock" /\ mtx'[c] = "caller"
                   ELSE pc'[c] = "parked" /\ mtx'[c] = "free"
            /\ pc'[c] = "parked" /\ pc[c] # "parked" =>
                   pc[c] = "recheck" /\ mtx[c] = "caller" /\ ~set_called[c]
            /\ pc'[c] = "get_value" /\ pc[c] # "get_value" =>
                   /\ pc[c] \in {"wait", "unlock"}
                   /\ mtx'[c] # "caller"
      ]_vars

\* C13 witness: the locked re-read found the flag set after the unlocked
\* read had found it unset; the calling thread leaves wait() without
\* parking.
C13_Witness ==
    \E c \in Calls :
        /\ pc[c] = "unlock" /\ set_called[c] /\ mtx[c] = "caller"
        /\ cond_var[c] = {} /\ ~sync[c] /\ ppc[c] = "done"

\* What sync_wait hands to its caller for a completion signal, whenever the
\* signal was sent.
OutcomeOf(k) ==
    IF k.ch = "value" THEN Present(Owned(k.vals))
    ELSE IF k.ch = "error" THEN Raised(RaisedFor(k.err))
    ELSE Absent

\* C14: a sender that completes inside start() neither deadlocks nor parks
\* the calling thread: the callback has run to its end when start() returns,
\* its notify_one found nobody queued, wait() returns from the unlocked read
\* of the flag without touching the mutex, and under fair scheduling the call
\* returns, with the outcome its completion signal has in every generic
\* call, synchronous or not.
C14_InlineCompletion ==
    /\ [](\A c \in Calls :
            /\ sync[c] =>
                   /\ pc[c] \notin {"lock", "recheck", "parked", "woken",
                                    "unlock"}
                   /\ cond_var[c] = {} /\ spins[c] = 0 /\ mtx[c] # "caller"
                   /\ pc[c] \in {"wait", "get_value", "leave", "returned"} =>
                          ppc[c] = "done" /\ set_called[c]
            /\ Resolved(c) => results[c] = <<OutcomeOf(completion[c])>>)
    /\ \A c \in Calls : (sync[c] /\ pc[c] = "in_start") ~> pc[c] = "returned"

\* C14 witness: start() has returned after the callback ran inside it, and
\* wait() has returned from the unlocked read of the flag.
C14_Witness ==
    \E c \in Calls :
        /\ sync[c] /\ pc[c] = "get_value" /\ ppc[c] = "done"
        /\ steps[c] = <<"state", "connect", "start", "wait">>
        /\ mtx[c] = "free" /\ completion[c].ch = "value"

\* The number of members of the sequence s that equal x.
RECURSIVE Count(_, _)
Count(s, x) ==
    IF s = <<>> THEN 0
    ELSE (IF Head(s) = x THEN 1 ELSE 0) + Count(Tail(s), x)

\* The steps of the generic sequence that lie behind the calling thread
\* at each of its positions.
StepsBehind(p) ==
    CASE p = "connect" -> 1
      [] p = "start" -> 2
      [] p \in {"in_start", "wait"} -> 3
      [] p \in {"lock", "recheck", "parked", "woken", "unlock",
                "get_value"} -> 4
      [] p \in {"leave", "returned"} -> 5

\* C15: a generic call does its steps in the order state, connect, start,
\* wait, get_value, each once; get_value() runs once and only after wait()
\* has returned, so the cell is read at most once and one outcome at most is
\* handed over; the producer runs only after start; state and op_state stay
\* alive from their construction until the call returns.
C15_StepOrder ==
    \A c \in Calls :
        Generic(c) =>
            /\ steps[c] = SubSeq(GenericSteps, 1, StepsBehind(pc[c]))
            /\ Count(cellLog[c], "read") = Count(steps[c], "get_value")
            /\ Len(results[c]) = Count(steps[c], "get_value")
            /\ ppc[c] # "none" => Count(steps[c], "start") = 1
            /\ alive[c] <=> pc[c] # "returned"

\* C15 witness: a call whose sender completed on another thread has done the
\* five steps, handed one raised error to its caller and ended the
\* lifetime of its state.
C15_Witness ==
    \E c \in Calls :
        /\ pc[c] = "returned" /\ steps[c] = GenericSteps /\ ~alive[c]
        /\ ~sync[c] /\ Len(results[c]) = 1 /\ results[c][1].kind = "raised"

\* The positions of the calling thread of a generic call, in program order.
Position(p) ==
    CASE p = "dispatch" -> 0
      [] p = "connect" -> 1
      [] p = "start" -> 2
      [] p = "in_start" -> 3
      [] p = "wait" -> 4
      [] p = "lock" -> 5
      [] p = "recheck" -> 6
      [] p = "parked" -> 7
      [] p = "woken" -> 8
      [] p = "unlock" -> 9
      [] p = "get_value" -> 10
      [] p = "leave" -> 11
      [] p = "returned" -> 12
      [] OTHER -> 0

\* C16: the calling thread of a generic call suspends at most once, and only
\* on the condition variable inside wait(): it moves forward through its
\* positions and never back, so it parks once at most, and it parks only
\* from the locked re-check of wait(), queued on cond_var; at connect, at
\* start, at the return of start (the callback of an inline completion is
\* run by the calling thread itself), at both reads of the flag, at
\* get_value and at the end of the scope it can always take its step.
C16_OneSuspensionPoint ==
    /\ [](\A c \in Calls :
            /\ pc[c] = "parked" => "caller" \in cond_var[c] /\ alive[c]
            /\ pc[c] \in {"connect", "start", "wait", "recheck", "unlock",
                          "get_value", "leave"} => ENABLED CallerStep(c)
            /\ pc[c] = "in_start" =>
                   IF sync[c] /\ ppc[c] # "done"
                   THEN ENABLED ProducerStep(c)
                   ELSE ENABLED CallerStep(c))
    /\ [][\A c \in Calls :
            /\ Generic(c) /\ pc'[c] # pc[c] =>
                   Position(pc'[c]) > Position(pc[c])
            /\ pc'[c] = "parked" /\ pc[c] # "parked" =>
                   pc[c] = "recheck" /\ cond_var'[c] = {"caller"}
      ]_vars

\* C16 witness: the calling thread is suspended on the condition variable,
\* having released the mutex, while the producer is still writing the cell.
C16_Witness ==
    \E c \in Calls :
        /\ pc[c] = "parked" /\ cond_var[c] = {"caller"} /\ mtx[c] = "free"
        /\ ppc[c] = "emplace" /\ ~set_called[c]

\* The alternative and the contents of the value cell that a completion
\* signal leaves behind.
CellOf(k) ==
    IF k.ch = "value" THEN [alt |-> "result", tuple |-> Owned(k.vals),
                            err |-> NoError]
    ELSE IF k.ch = "error" THEN [alt |-> "error", tuple |-> <<>>,
                                 err |-> k.err]
    ELSE [alt |-> "monostate", tuple |-> <<>>, err |-> NoError]

\* The alternative and the contents of a cell, whether moved from or not.
Contents(cell) == [alt |-> cell.alt, tuple |-> cell.tuple, err |-> cell.err]

\* C20: set_called is monotonic and publishes a final cell: it becomes true
\* once, in signal_set_called, after the callback's write has ended, and is
\* never reset; whenever it is true the cell holds the alternative of the
\* channel that fired (result, error, or still monostate for set_stopped)
\* with the payload sent, and no later step writes the cell again.
C20_FlagPublishesFinalCell ==
    /\ [](\A c \in Calls :
            set_called[c] =>
                /\ completion[c].ch # "none"
                /\ Contents(value[c]) = CellOf(completion[c])
                /\ Count(cellLog[c], "write_begin") =
                       Count(cellLog[c], "write_end"))
    /\ [][\A c \in Calls :
            /\ set_called[c] =>
                   /\ set_called'[c]
                   /\ Contents(value'[c]) = Contents(value[c])
                   /\ completion'[c] = completion[c]
                   /\ Count(cellLog'[c], "write_begin") =
                          Count(cellLog[c], "write_begin")
            /\ ~set_called[c] /\ set_called'[c] =>
                   ppc[c] = "sig_set" /\ value'[c] = value[c]
      ]_vars

\* C20 witness: the flag is true, the cell holds the error the sender sent,
\* and the calling thread has not yet been resumed.
C20_Witness ==
    \E c \in Calls :
        /\ set_called[c] /\ value[c].alt = "error"
        /\ value[c].err = completion[c].err
        /\ pc[c] = "parked" /\ ppc[c] = "sig_notify"

\* The members of a list of types.
Members(pack) == {pack[i] : i \in DOMAIN pack}

\* C19: for every list of declared error types the deduced error variant is
\* that list with std::exception_ptr put in front and every repetition
\* removed: std::exception_ptr is the first alternative, also when the
\* sender declares it itself and when it declares nothing; every declared
\* type is an alternative exactly once, in the order of first declaration;
\* and there is no other alternative.
C19_ErrorTypeDeduction ==
    deduced.stage \in {"deduced", "emplaced"} =>
        LET alts == deduced.error_type
            declared == deduced.declared
        IN  /\ Len(alts) >= 1 /\ alts[1] = "exception_ptr"
            /\ Members(alts) = Members(declared) \cup {"exception_ptr"}
            /\ \A i, j \in DOMAIN alts : alts[i] = alts[j] => i = j
            /\ \A T \in Members(declared) : Count(alts, T) = 1
            /\ \A i, j \in DOMAIN alts :
                   (1 < i /\ i < j) =>
                       first_index(declared, alts[i], 1)
                           < first_index(declared, alts[j], 1)

\* C19 witness: the sender declares std::exception_ptr itself, after another
\* type, and the deduced variant has std::exception_ptr once, in front.
C19_Witness ==
    /\ deduced.stage = "deduced"
    /\ deduced.declared = <<"int", "exception_ptr">>
    /\ deduced.error_type = <<"exception_ptr", "int">>

\* C18 as stated: set_error stores an error of a declared type in the
\* alternative of that type, and an error of any other type in the
\* std::exception_ptr alternative, so every error sent has a slot.
C18_EveryErrorHasSlot ==
    deduced.stage = "emplaced" =>
        IF deduced.error.type \in Members(deduced.declared)
        THEN /\ deduced.stored.type = deduced.error.type
             /\ deduced.stored.err = deduced.error
        ELSE /\ deduced.stored.type = "exception_ptr"
             /\ deduced.stored.index = 1
             /\ deduced.stored.err.v = deduced.error.v

\* C18 amended: set_error stores an error whose type is an alternative of
\* the error variant (a declared error type or std::exception_ptr, which is
\* always an alternative) in the alternative of that very type, unchanged;
\* for an error of any other type the error variant cannot be constructed
\* and nothing is stored: set_error does not capture it in the
\* std::exception_ptr alternative.
C18_ErrorStoredInOwnAlternative ==
    deduced.stage = "emplaced" =>
        LET alts == deduced.error_type
            e == deduced.error
            stored == deduced.stored
        IN  IF e.type \in Members(deduced.declared) \cup {"exception_ptr"}
            THEN /\ stored.index \in DOMAIN alts
                 /\ alts[stored.index] = e.type
                 /\ stored.type = e.type /\ stored.err = e
            ELSE stored = ill_formed

\* C18 witness: the sender declares int only and sends an exception_ptr; it
\* is stored in the first alternative, the one the deduction put in front.
C18_Witness ==
    /\ deduced.stage = "emplaced"
    /\ deduced.declared = <<"int">>
    /\ deduced.error.type = "exception_ptr"
    /\ deduced.stored.index = 1 /\ deduced.stored.err = deduced.error

\* C17: every call has its own shared state and its own receiver bound to
\* it: a step of the completion callback of one call leaves the flag, the
\* value cell, the mutex and the condition variable of every other call as
\* they are and resumes no calling thread but its own.
C17_CallbackTouchesOwnCallOnly ==
    [][\A c, d \in Calls :
           (c # d /\ ppc'[c] # ppc[c]) =>
               /\ set_called'[d] = set_called[d]
               /\ value'[d] = value[d]
               /\ mtx'[d] = mtx[d]
               /\ cond_var'[d] = cond_var[d]
               /\ pc'[d] = pc[d]
      ]_vars

====
